---- MODULE Spec2Model ----
(***************************************************************************)
(* Model of the kin front end.                                             *)
(*                                                                         *)
(*  - The lifetime-tracking Builder (src/src/parse.rs, ParseState): the    *)
(*    recursive descent over the concrete syntax tree is unfolded into     *)
(*    one action per handler step.  A construct that recurses (def,        *)
(*    closure, paren_expr, the file) is a frame on `stack`: its Begin      *)
(*    action is the handler's code up to the recursive call, its End       *)
(*    action the code after it.  Expression handlers act on the operand    *)
(*    stack `ops` of the top frame in the order the code evaluates them.   *)
(*    The concrete syntax tree is the input: every action is offered for   *)
(*    every shape the handlers accept, within the bounds below.            *)
(*  - The Resolver's type resolution (src/src/resolve.rs).                 *)
(***************************************************************************)
EXTENDS Integers, Sequences, FiniteSets, TLC

\* ---------------------------------------------------------------- bounds
MaxFrames == 3    \* constructs open at once (the file included)
MaxNodes  == 3    \* terms in one source unit
MaxItems  == 2    \* items in one item sequence
MaxOps    == 3    \* operands pending in one expression
MaxParams == 1    \* parameters of one definition or closure
MaxErrors == 2    \* diagnostics recorded in one pass
BlockFrames == 4  \* constructs open at once in a source unit of blocks
BlockTerms == 3   \* terms in a source unit of blocks
DeepFrames == 258 \* constructs open at once in a source unit of nested closures
NameTerms == 2    \* terms in a source unit that binds any name
MaxAlts    == 2   \* alternatives of one type expression
MaxPushes  == 2   \* types registered by push_type after Resolver::new
MaxScopes  == 2   \* scopes of the Resolver
MaxRErrors == 2   \* diagnostics the Resolver records
MaxWalk    == 3   \* nested resolve() calls of definitions and closures
MaxDefs    == 2   \* definitions the Resolver walks into

\* ------------------------------------------------------ program constants
U8 == 256                     \* depth() returns `len as u8`
MaxU8Byte == 255              \* parse::<u8>() of a byte escape
MaxChar == 1114111            \* char::from_u32: 0x10FFFF
SurrogateLo == 55296          \* char::from_u32: 0xD800
SurrogateHi == 57343          \* char::from_u32: 0xDFFF

Names == {"f", "x", "nil", "_"}
DefNames == {"f", "nil", "_"}       \* names the definitions of the input take
PlainNames == {"f", "x"}            \* the names among them that draw no diagnostic
ParamNames == {"x", "nil"}          \* names its parameters take
RefNames == {"f", "x", "nil"}       \* names its identifier terms take
FORBIDDEN_REDIFINITIONS == {"nil", "true", "false"}
Builtins == {"nil"}

Max(a, b) == IF a >= b THEN a ELSE b

\* ---------------------------------------------------------------- data
Lifetime(d, r) == [depth |-> d, refs |-> r]
STATIC == Lifetime(0, 0)

NoneB == [kind |-> "None", depth |-> 0, refs |-> 0, nparams |-> 0]
DefB(lt, np) == [kind |-> "Def", depth |-> lt.depth, refs |-> lt.refs, nparams |-> np]
ParamB(d) == [kind |-> "Param", depth |-> d, refs |-> 0, nparams |-> 0]
UnfinishedB(d) == [kind |-> "Unfinished", depth |-> d, refs |-> 0, nparams |-> 0]
BuiltinB == [kind |-> "Builtin", depth |-> 0, refs |-> 0, nparams |-> 0]

\* Binding::lifetime that gives every binding its depth as refs.
BindingLifetimeByDepth(b) == Lifetime(b.depth, b.depth)

BindingLifetime(b) ==
    CASE b.kind = "Def" -> Lifetime(b.depth, b.refs)
      [] b.kind \in {"Param", "Unfinished"} -> Lifetime(b.depth, b.depth)
      [] OTHER -> STATIC

EmptyBindings == [n \in Names |-> NoneB]
DefaultFunctionScope == [scopes |-> <<EmptyBindings>>, min_refs |-> 0]

\* Precedence tiers: the handler that produced a node.
TTerm == 0
THead == 1
TMom  == 2
TDad  == 3
TCall == 4
TNeg  == 5
TMdr  == 6
TAs   == 7
TCmp  == 8
TAnd  == 9
TOr   == 10

\* A node: its Lifetime, the tier that built it, and two history tags:
\* own = the node is an identifier term bound to a parameter of the innermost
\* function scope; unk = its refs derives only from the lifetime of an unresolved
\* identifier.
Node(lt, tier, own, unk) ==
    [depth |-> lt.depth, refs |-> lt.refs, tier |-> tier, own |-> own, unk |-> unk]
NodeLt(n) == Lifetime(n.depth, n.refs)

\* The node carries the lifetime of an unresolved identifier itself, so its
\* depth, too, is the recovery lifetime's.
IsRecovery(n) == n.unk /\ n.depth = STATIC.depth /\ n.refs = STATIC.refs

\* An item of an item sequence: a node or a definition.
NoItem == [node |-> FALSE, depth |-> 0, refs |-> 0, own |-> FALSE, unk |-> FALSE]
NodeItem(n) == [node |-> TRUE, depth |-> n.depth, refs |-> n.refs, own |-> n.own, unk |-> n.unk]

VARIABLES
    scopes,    \* ParseState.scopes: Seq of FunctionScope
    errors,    \* ParseState.errors: Seq of [kind, name]
    stack,     \* the handlers in progress (the recursion of the descent)
    nodes,     \* terms processed so far
    crashed,   \* the pass panicked
    done,      \* parse() got its items back
    capt,      \* history, per function scope: depths of its own bindings
               \* that a nested function scope referenced
    last,      \* history: what the last step did
    mon,       \* history: progress through the `double` source unit
    tmpl,      \* history: progress through a source unit of its shape
    limit,     \* the number of terms the source unit may hold
    bindable,  \* the names its definitions and parameters may take
    room       \* the number of constructs the source unit may nest

VARIABLES
    rscopes,   \* Resolver.scopes: Seq of Scope
    rerrors,   \* Resolver.errors: the name of an UnknownType diagnostic, the
               \* [kind, name] of an UnknownDef one
    ty,        \* the Type being resolved
    fresh,     \* history: ty was resolved since find_type last changed
    rlast,     \* history: the last resolve() call, the ResolvedType it found
               \* on ty and the diagnostics it pushed
    rstack,    \* the definitions and closures whose resolve() is in progress,
               \* one frame per scope of the Resolver
    dlast      \* history: what the last step of the walk over the tree did

bvars ==
    <<scopes, errors, stack, nodes, crashed, done, capt, last, mon, tmpl, limit,
      bindable, room>>
rvars == <<rscopes, rerrors, ty, fresh, rlast, rstack, dlast>>
vars == <<bvars, rvars>>

\* ------------------------------------------------------------ diagnostics
Err(kind, name) == [kind |-> kind, name |-> name]
Count(seq, kind) == Cardinality({i \in 1..Len(seq) : seq[i].kind = kind})

\* ---------------------------------------------------------- Scope Manager
depth(sc) == Len(sc) % U8

push_function_scope(sc) == Append(sc, DefaultFunctionScope)

\* A pop() that leaves the function scope in place.
pop_function_scope_kept(sc) == sc

\* the number of function scopes and of block scopes of the current one
ScopeCounts(sc) == <<Len(sc), Len(sc[Len(sc)].scopes)>>

\* pop(): the scope stack without its last function scope (its min_refs is
\* what the caller reads off the popped scope).
pop_function_scope(sc) == SubSeq(sc, 1, Len(sc) - 1)

push_paren_scope(sc) ==
    [sc EXCEPT ![Len(sc)].scopes = Append(@, EmptyBindings)]

\* pop_paren_scope that leaves the block scope in place.
pop_paren_scope_kept(sc) == sc
pop_paren_scope(sc) ==
    [sc EXCEPT ![Len(sc)].scopes = SubSeq(@, 1, Len(@) - 1)]

\* self.scope().bindings.insert(name, b)
Insert(sc, name, b) ==
    [sc EXCEPT ![Len(sc)].scopes[Len(sc[Len(sc)].scopes)][name] = b]

\* bind_unfinished that inserts nothing.
bind_unfinished_skipped(sc, name) == sc
bind_unfinished(sc, name) == Insert(sc, name, UnfinishedB(depth(sc)))

\* bind_param that takes depth() for depth() - 1.
bind_param_at_depth(sc, name) == Insert(sc, name, ParamB(depth(sc)))
bind_param(sc, name) == Insert(sc, name, ParamB((depth(sc) + U8 - 1) % U8))

\* bind_param's `self.depth() - 1` on a u8 that is 0: the subtraction
\* panics where overflow checks are compiled in and wraps where not.
Underflows(sc, params) == params # <<>> /\ depth(sc) = 0

RECURSIVE bind_params(_, _)
bind_params(sc, params) ==
    IF params = <<>> THEN sc
    ELSE bind_params(bind_param(sc, Head(params)), Tail(params))

\* The lifetime bind_def stores, and the one a closure term takes: depth()
\* and max(last item refs, min_refs).
DefLifetime(sc, lastRefs, min_refs) == Lifetime(depth(sc), Max(lastRefs, min_refs))

bind_def(sc, name, nparams, lastRefs, min_refs) ==
    Insert(sc, name, DefB(DefLifetime(sc, lastRefs, min_refs), nparams))

\* The identifier lookup of term(): function scopes from the innermost out,
\* and in each its block scopes from the innermost out.
HasIn(fs, name) == \E p \in 1..Len(fs.scopes) : fs.scopes[p][name].kind # "None"
\* FindIn that searches the block scopes from the outermost in.
FindInOutermost(fs, name) ==
    LET p == CHOOSE q \in 1..Len(fs.scopes) :
                 /\ fs.scopes[q][name].kind # "None"
                 /\ \A r \in 1..(q - 1) : fs.scopes[r][name].kind = "None"
    IN fs.scopes[p][name]
FindIn(fs, name) ==
    LET p == CHOOSE q \in 1..Len(fs.scopes) :
                 /\ fs.scopes[q][name].kind # "None"
                 /\ \A r \in (q + 1)..Len(fs.scopes) : fs.scopes[r][name].kind = "None"
    IN fs.scopes[p][name]
Found(sc, name) == \E fi \in 1..Len(sc) : HasIn(sc[fi], name)
FoundAt(sc, name) ==
    CHOOSE fi \in 1..Len(sc) :
        /\ HasIn(sc[fi], name)
        /\ \A fj \in (fi + 1)..Len(sc) : ~HasIn(sc[fj], name)
Lookup(sc, name) ==
    IF Found(sc, name) THEN FindIn(sc[FoundAt(sc, name)], name) ELSE NoneB

\* The propagation into every function scope.
PropagateEvery(sc, lt) ==
    IF lt.depth > 0 /\ lt.depth < depth(sc)
    THEN [i \in 1..Len(sc) |-> [sc[i] EXCEPT !.min_refs = Max(@, lt.depth)]]
    ELSE sc

\* The propagation with one function scope fewer.
PropagateOneFewer(sc, lt) ==
    IF lt.depth > 0 /\ lt.depth < depth(sc)
    THEN LET affected_scopes == depth(sc) - lt.depth - 1
         IN [i \in 1..Len(sc) |->
                IF i > Len(sc) - affected_scopes
                THEN [sc[i] EXCEPT !.min_refs = Max(@, lt.depth)]
                ELSE sc[i]]
    ELSE sc

\* The min_refs propagation of term(): the innermost depth() - lt.depth
\* function scopes take max(min_refs, lt.depth).
Propagate(sc, lt) ==
    IF lt.depth > 0 /\ lt.depth < depth(sc)
    THEN LET affected_scopes == depth(sc) - lt.depth
         IN [i \in 1..Len(sc) |->
                IF i > Len(sc) - affected_scopes
                THEN [sc[i] EXCEPT !.min_refs = Max(@, lt.depth)]
                ELSE sc[i]]
    ELSE sc

\* ------------------------------------------------------------------ frames
\* kind: the handler; rule: the rule of its body (function_body() takes
\* Rule::items or Rule::expr); n, lastItem: the items built so far; ops: the
\* operands of the expression being built; lvl: the function scope it runs
\* in; saved: history, what every name resolved to when a block was entered;
\* entry: history, the scope counts when the handler was entered.
Frame(kind, rule, name, nparams, check_ref, lvl, saved, entry) ==
    [kind |-> kind, rule |-> rule, name |-> name, nparams |-> nparams,
     check_ref |-> check_ref, n |-> 0, lastItem |-> NoItem, ops |-> <<>>,
     lvl |-> lvl, saved |-> saved, entry |-> entry]

Top == stack[Len(stack)]
Running == ~crashed /\ ~done /\ stack # <<>>

\* The stack with `node` appended to the operands of its top frame.
PushOp(st, node) == [st EXCEPT ![Len(st)].ops = Append(@, node)]
\* The stack with the top frame's last k operands replaced by `node`.
Reduce(st, k, node) ==
    [st EXCEPT ![Len(st)].ops = Append(SubSeq(@, 1, Len(@) - k), node)]
\* The stack with `item` appended to the items of its top frame.
PushItem(st, item) == [st EXCEPT ![Len(st)].n = @ + 1, ![Len(st)].lastItem = item]
PopFrame(st) == SubSeq(st, 1, Len(st) - 1)

\* What the last step did, for the steps that begin or end a construct:
\* the handler (op), the diagnostics it pushed, and for the End steps the
\* trailing item, depth() at the check, whether the construct is a
\* function, the number of items of its body, and the min_refs and capture
\* history of the scope it popped.
\* lt is the lifetime the End step computed, names the names a Begin step
\* bound (the name an identifier step looked up, the name EndDef binds), saved and popped what a block's names resolved to when it was
\* entered and the bindings of the block scope it popped, blocks the number
\* of block scopes its function scope held at the check, mins the min_refs
\* of the function scopes before an identifier step, maxin the maximum refs
\* over the caller (the node so far, for a chained call) and the arguments
\* of a call step or over the operands of an operator step, ltier the tier
\* of the left operand of a binary operator step.
NoLast ==
    [op |-> "step", pushed |-> <<>>, trail |-> NoItem, depth |-> 0, n |-> 0,
     min_refs |-> 0, capDef |-> 0, capParam |-> 0, fn |-> FALSE,
     lt |-> STATIC, names |-> <<>>, saved |-> EmptyBindings,
     popped |-> EmptyBindings, blocks |-> 0, mins |-> <<>>, maxin |-> 0,
     ltier |-> 0, entry |-> <<0, 0>>]

NoCapt == [def |-> 0, param |-> 0]

\* ------------------------------------------------------------------- Init
BInit(terms, names, frames) ==
    /\ scopes = <<[scopes |-> <<[n \in Names |->
                                    IF n \in Builtins THEN BuiltinB ELSE NoneB]>>,
                   min_refs |-> 0]>>
    /\ errors = <<>>
    /\ stack = <<Frame("file", "items", "", 0, FALSE, 1, EmptyBindings,
                     <<1, 1>>)>>
    /\ nodes = 0
    /\ crashed = FALSE
    /\ done = FALSE
    /\ capt = <<NoCapt>>
    /\ last = NoLast
    /\ mon = 0
    /\ tmpl = 0
    /\ limit = terms
    /\ bindable = names
    /\ room = frames

\* ------------------------------------------------------------ identifiers
\* name.starts_with('_') || name.ends_with('_'), on the names of the model.
StartsOrEndsUnderscore(name) == name \in {"_", "x_", "_x"}
is_underscore(name) == name = "_"

\* ident(): the diagnostics it pushes.
ident(name) ==
    IF StartsOrEndsUnderscore(name) /\ name # "_"
    THEN <<Err("DefUnderscoreTerminus", name)>> ELSE <<>>

\* bound_ident without its test of FORBIDDEN_REDIFINITIONS.
bound_ident_unchecked(name) == ident(name)

\* bound_ident(): the diagnostics it pushes.
bound_ident(name) ==
    ident(name) \o (IF name \in FORBIDDEN_REDIFINITIONS
                    THEN <<Err("ForbiddenRedefinition", name)>> ELSE <<>>)

\* param() over the parameter list.
RECURSIVE param(_)
param(params) ==
    IF params = <<>> THEN <<>> ELSE bound_ident(Head(params)) \o param(Tail(params))

ParamLists == UNION {[1..k -> ParamNames] : k \in 0..MaxParams}

\* ------------------------------------------------------------------ items
\* The checks items() makes on the last item once the loop is over.
ItemsCheck(fr, sc) ==
    IF fr.n = 0 THEN <<>>
    ELSE (IF /\ fr.check_ref
             /\ fr.lastItem.node
             /\ fr.lastItem.refs = depth(sc)
             /\ Len(sc[Len(sc)].scopes) = 1
          THEN <<Err("ReturnReferencesLocal", "")>> ELSE <<>>)
         \o (IF depth(sc) > 1 /\ ~fr.lastItem.node
             THEN <<Err("LastItemNotExpression", "")>> ELSE <<>>)

\* function_body() on Rule::expr: the check on the node.
ExprBodyCheck(check_ref, node, sc) ==
    IF check_ref /\ node.refs >= depth(sc)
    THEN <<Err("ReturnReferencesLocal", "")>> ELSE <<>>

\* Item::lifetime() of a definition item.
DefItem == [node |-> FALSE, depth |-> STATIC.depth, refs |-> STATIC.refs,
            own |-> FALSE, unk |-> FALSE]

\* A place where a term may start: the expression of a body, or an item.
CanTerm ==
    /\ Running
    /\ Len(Top.ops) < MaxOps
    /\ Top.rule = "items" => Top.n < MaxItems
    /\ Top.rule = "expr" => Top.n = 0
CanLeaf == CanTerm /\ nodes < limit

\* The body of the top frame is complete: one expression, or whole items.
BodyDone ==
    /\ Running
    /\ IF Top.rule = "expr" THEN Len(Top.ops) = 1 ELSE Top.ops = <<>>

\* The body as function_body() returns it: its last item, if any.
BodyEmpty == Top.rule = "items" /\ Top.n = 0
BodyLast == IF Top.rule = "expr" THEN NodeItem(Top.ops[1]) ELSE Top.lastItem
BodyErrors(sc) ==
    IF Top.rule = "expr" THEN ExprBodyCheck(Top.check_ref, Top.ops[1], sc)
    ELSE ItemsCheck(Top, sc)

\* --------------------------------------------------- the `double` monitor
\* double(x) = x + x, then double 5, as the steps that process it.
Label(op, name, k, rule) ==
    [op |-> op, name |-> name, k |-> k, rule |-> rule, params |-> <<>>]
DefLabel(name, params, rule) ==
    [Label("def", name, Len(params), rule) EXCEPT !.params = params]
Double ==
    << DefLabel("f", <<"x">>, "expr"), Label("ident", "x", 0, ""),
       Label("ident", "x", 0, ""), Label("expr_as", "+", 0, ""),
       Label("end_def", "f", 1, "expr"), Label("ident", "f", 0, ""),
       Label("int", "", 1, ""), Label("expr_call", "", 1, ""),
       Label("item", "", 0, ""), Label("end_file", "", 0, "") >>
MonStep(m, label) ==
    IF m >= 0 /\ m < Len(Double) /\ Double[m + 1] = label THEN m + 1 ELSE -1

\* The source units of the shape of `double`: a one-parameter definition
\* whose body is one binary expression of two identifiers, then the call of
\* an identifier with one literal argument.
Shape ==
    << {"def"}, {"ident"}, {"ident"}, {"expr_cmp", "expr_as", "expr_mdr"},
       {"end_def"}, {"ident"}, {"int", "real"}, {"expr_call"}, {"item"},
       {"end_file"} >>
DoubleTerms == 4
TmplStep(m, label) ==
    IF /\ m >= 0
       /\ m < Len(Shape)
       /\ label.op \in Shape[m + 1]
       /\ label.op \in {"def", "end_def", "expr_call"} => label.k = 1
    THEN m + 1 ELSE -1

\* The history a step leaves, and the bound on the diagnostics.
Step(label, l) == /\ last' = l
                  /\ mon' = MonStep(mon, label)
                  /\ tmpl' = TmplStep(tmpl, label)
                  /\ limit' = limit
                  /\ bindable' = bindable
                  /\ room' = room
                  /\ UNCHANGED rvars

ErrOk(errs) == Len(errors) + Len(errs) <= MaxErrors

\* ------------------------------------------------------------------ terms
\* Rule::int, Rule::real: ok says whether the text parses.
NumLit(rule, ok) ==
    /\ CanLeaf
    /\ LET lt == Lifetime(depth(scopes), 0)
           errs == IF ok THEN <<>> ELSE <<Err("InvalidLiteral", "")>>
       IN /\ ErrOk(errs)
          /\ errors' = errors \o errs
          /\ stack' = PushOp(stack, Node(lt, TTerm, FALSE, FALSE))
          /\ Step(Label(rule, "", IF ok THEN 1 ELSE 0, ""), NoLast)
    /\ nodes' = nodes + 1
    /\ UNCHANGED <<scopes, crashed, done, capt>>

\* Rule::string: one part of the literal.
from_u32_ok(u) == u <= MaxChar /\ ~(u >= SurrogateLo /\ u <= SurrogateHi)
PartOk(part) ==
    CASE part.rule = "byte" -> part.v <= MaxU8Byte
      [] part.rule = "unicode" -> from_u32_ok(part.v)
      [] OTHER -> TRUE
Parts ==
    {[rule |-> "raw_string", v |-> 0], [rule |-> "predefined", v |-> 0]}
    \cup {[rule |-> "byte", v |-> v] : v \in {MaxU8Byte, MaxU8Byte + 1}}
    \cup {[rule |-> "unicode", v |-> v] : v \in {MaxChar, SurrogateLo, MaxChar + 1}}

string_literal(part) ==
    /\ CanLeaf
    /\ IF PartOk(part)
       THEN /\ stack' = PushOp(stack, Node(STATIC, TTerm, FALSE, FALSE))
            /\ crashed' = FALSE
       ELSE /\ stack' = stack
            /\ crashed' = TRUE
    /\ Step(Label("string", "", 0, ""), NoLast)
    /\ nodes' = nodes + 1
    /\ UNCHANGED <<scopes, errors, done, capt>>

\* A recovery lifetime owned by the current function scope.
UnknownLifetimeLocal(sc) == Lifetime(depth(sc), depth(sc))

\* The recovery lifetime of an identifier with no visible binding.
UnknownLifetime(sc) == STATIC

\* A closure frame nested in function scope fi is open.
InClosure(fi) == \E i \in 1..Len(stack) : stack[i].kind = "closure" /\ stack[i].lvl > fi

\* Rule::ident
Ident(name) ==
    /\ CanLeaf
    /\ LET found == Found(scopes, name)
           b == Lookup(scopes, name)
           fi == IF found THEN FoundAt(scopes, name) ELSE 0
           lt == IF found THEN BindingLifetime(b) ELSE UnknownLifetime(scopes)
           errs == ident(name)
                   \o (IF found THEN <<>> ELSE <<Err("UnknownDef", name)>>)
           own == found /\ b.kind = "Param" /\ fi = Len(scopes)
       IN /\ ErrOk(errs)
          /\ scopes' = IF found THEN Propagate(scopes, lt) ELSE scopes
          /\ errors' = errors \o errs
          /\ stack' = PushOp(stack, Node(lt, TTerm, own, ~found))
          /\ capt' = IF found /\ fi < Len(scopes) /\ InClosure(fi)
                     THEN CASE b.kind = "Def" ->
                                 [capt EXCEPT ![fi].def = Max(@, lt.depth)]
                            [] b.kind = "Param" ->
                                 [capt EXCEPT ![fi].param = Max(@, lt.depth)]
                            [] OTHER -> capt
                     ELSE capt
          /\ Step(Label("ident", name, 0, ""),
                  [NoLast EXCEPT !.op = "ident", !.pushed = errs,
                                 !.names = <<name>>,
                                 !.mins = [i \in 1..Len(scopes) |->
                                             scopes[i].min_refs]])
    /\ nodes' = nodes + 1
    /\ UNCHANGED <<crashed, done>>

\* Rule::paren_expr up to the call of items()
BeginParen ==
    /\ CanLeaf
    /\ Len(stack) < room
    /\ scopes' = push_paren_scope(scopes)
    /\ stack' = Append(stack, Frame("paren", "items", "", 0, TRUE, Len(scopes),
                                    [n \in Names |-> Lookup(scopes, n)],
                                    ScopeCounts(scopes)))
    /\ Step(Label("paren", "", 0, ""), NoLast)
    /\ nodes' = nodes + 1
    /\ UNCHANGED <<errors, crashed, done, capt>>

\* items() of the block once its items are built, and the rest of paren_expr
EndParen ==
    /\ Running
    /\ Top.kind = "paren"
    /\ Top.ops = <<>>
    /\ LET errs == ItemsCheck(Top, scopes)
           sc1 == pop_paren_scope(scopes)
           lt == Lifetime(depth(sc1), Top.lastItem.refs)
       IN /\ ErrOk(errs)
          /\ errors' = errors \o errs
          /\ scopes' = sc1
          /\ IF Top.n = 0
             THEN \* items.last().unwrap()
                  /\ crashed' = TRUE
                  /\ stack' = stack
             ELSE /\ crashed' = FALSE
                  /\ stack' = PushOp(PopFrame(stack),
                                     Node(lt, TTerm, FALSE, Top.lastItem.unk))
          /\ Step(Label("end_paren", "", 0, ""),
                  [NoLast EXCEPT !.op = "end_paren", !.pushed = errs,
                                 !.entry = Top.entry,
                                 !.trail = Top.lastItem, !.depth = depth(scopes),
                                 !.n = Top.n, !.lt = lt, !.saved = Top.saved,
                                 !.blocks = Len(scopes[Len(scopes)].scopes),
                                 !.popped = scopes[Len(scopes)].scopes[
                                                Len(scopes[Len(scopes)].scopes)]])
    /\ UNCHANGED <<nodes, done, capt>>

\* items(): one expression item is pushed
EndItem ==
    /\ Running
    /\ Top.rule = "items"
    /\ Len(Top.ops) = 1
    /\ stack' = [stack EXCEPT ![Len(stack)].ops = <<>>,
                              ![Len(stack)].n = @ + 1,
                              ![Len(stack)].lastItem = NodeItem(Top.ops[1])]
    /\ Step(Label("item", "", 0, ""), NoLast)
    /\ UNCHANGED <<scopes, errors, nodes, crashed, done, capt>>

\* parse(): items() of the file returns
EndFile ==
    /\ Running
    /\ Top.kind = "file"
    /\ Top.ops = <<>>
    /\ LET errs == ItemsCheck(Top, scopes)
       IN /\ ErrOk(errs)
          /\ errors' = errors \o errs
          /\ Step(Label("end_file", "", 0, ""),
                  [NoLast EXCEPT !.op = "end_file", !.pushed = errs,
                                 !.trail = Top.lastItem, !.depth = depth(scopes),
                                 !.n = Top.n])
    /\ stack' = <<>>
    /\ done' = TRUE
    /\ UNCHANGED <<scopes, nodes, crashed, capt>>

\* ----------------------------------------------------------- definitions
\* def() up to the call of function_body()
BeginDef(name, params, rule) ==
    /\ Running
    /\ Top.rule = "items"
    /\ Top.ops = <<>>
    /\ Top.n < MaxItems
    /\ Len(stack) < room
    /\ name \in bindable
    /\ \A i \in 1..Len(params) : params[i] \in bindable
    /\ LET is_function == params # <<>>
           errs == bound_ident(name) \o param(params)
                   \o (IF is_function /\ is_underscore(name)
                       THEN <<Err("FunctionNamedUnderscore", name)>> ELSE <<>>)
           sc1 == IF is_function
                  THEN bind_params(push_function_scope(bind_unfinished(scopes, name)),
                                   params)
                  ELSE scopes
       IN /\ ErrOk(errs)
          /\ errors' = errors \o errs
          /\ scopes' = sc1
          /\ capt' = IF is_function THEN Append(capt, NoCapt) ELSE capt
          /\ stack' = Append(stack, Frame("def", rule, name, Len(params), is_function,
                                          Len(sc1), EmptyBindings,
                                          ScopeCounts(scopes)))
          /\ Step(DefLabel(name, params, rule),
                  [NoLast EXCEPT !.op = "def", !.pushed = errs, !.fn = is_function,
                                 !.names = <<name>> \o params])
          /\ \E panics \in {FALSE, is_function /\ Underflows(sc1, params)} :
                crashed' = panics
    /\ UNCHANGED <<nodes, done>>

\* def() from the return of function_body()
EndDef ==
    /\ BodyDone
    /\ Top.kind = "def"
    /\ LET is_function == Top.nparams > 0
           errs == BodyErrors(scopes)
           min_refs == IF is_function THEN scopes[Len(scopes)].min_refs ELSE 0
           sc1 == IF is_function THEN pop_function_scope(scopes) ELSE scopes
           cap == IF is_function THEN capt[Len(capt)] ELSE NoCapt
       IN /\ ErrOk(errs)
          /\ errors' = errors \o errs
          /\ capt' = IF is_function THEN SubSeq(capt, 1, Len(capt) - 1) ELSE capt
          /\ IF BodyEmpty
             THEN \* items.last().unwrap()
                  /\ crashed' = TRUE
                  /\ scopes' = sc1
                  /\ stack' = stack
             ELSE IF ~is_function /\ is_underscore(Top.name)
             THEN /\ crashed' = FALSE
                  /\ scopes' = sc1
                  /\ stack' = PushItem(PopFrame(stack),
                                NodeItem(Node(Lifetime(depth(sc1), BodyLast.refs),
                                              TTerm, FALSE, BodyLast.unk)))
             ELSE /\ crashed' = FALSE
                  /\ scopes' = bind_def(sc1, Top.name, Top.nparams, BodyLast.refs,
                                        min_refs)
                  /\ stack' = PushItem(PopFrame(stack), DefItem)
          /\ Step(Label("end_def", Top.name, Top.nparams, Top.rule),
                  [NoLast EXCEPT !.op = "end_def", !.pushed = errs,
                                 !.entry = Top.entry,
                                 !.fn = is_function, !.names = <<Top.name>>,
                                 !.trail = IF BodyEmpty THEN NoItem ELSE BodyLast,
                                 !.depth = depth(scopes),
                                 !.n = IF Top.rule = "expr" THEN 1 ELSE Top.n,
                                 !.min_refs = min_refs, !.capDef = cap.def,
                                 !.capParam = cap.param,
                                 !.lt = IF BodyEmpty THEN STATIC
                                        ELSE DefLifetime(sc1, BodyLast.refs, min_refs)])
    /\ UNCHANGED <<nodes, done>>

\* Rule::closure up to the call of function_body()
BeginClosure(params, rule) ==
    /\ CanLeaf
    /\ Len(stack) < room
    /\ \A i \in 1..Len(params) : params[i] \in bindable
    /\ LET errs == param(params)
           sc1 == bind_params(push_function_scope(scopes), params)
       IN /\ ErrOk(errs)
          /\ errors' = errors \o errs
          /\ scopes' = sc1
          /\ stack' = Append(stack, Frame("closure", rule, "", Len(params), TRUE,
                                          Len(sc1), EmptyBindings,
                                          ScopeCounts(scopes)))
          /\ Step(Label("closure", "", Len(params), rule),
                  [NoLast EXCEPT !.op = "closure", !.pushed = errs, !.fn = TRUE,
                                 !.names = params])
          /\ \E panics \in {FALSE, Underflows(sc1, params)} : crashed' = panics
    /\ capt' = Append(capt, NoCapt)
    /\ nodes' = nodes + 1
    /\ UNCHANGED done

\* Rule::closure from the return of function_body()
EndClosure ==
    /\ BodyDone
    /\ Top.kind = "closure"
    /\ LET errs == BodyErrors(scopes)
           min_refs == scopes[Len(scopes)].min_refs
           sc1 == pop_function_scope(scopes)
           cap == capt[Len(capt)]
           lt == DefLifetime(sc1, BodyLast.refs, min_refs)
       IN /\ ErrOk(errs)
          /\ errors' = errors \o errs
          /\ scopes' = sc1
          /\ IF BodyEmpty
             THEN \* body.last().unwrap()
                  /\ crashed' = TRUE
                  /\ stack' = stack
             ELSE /\ crashed' = FALSE
                  /\ stack' = PushOp(PopFrame(stack),
                                 Node(lt, TTerm, FALSE, BodyLast.unk /\ min_refs = 0))
          /\ Step(Label("end_closure", "", Top.nparams, Top.rule),
                  [NoLast EXCEPT !.op = "end_closure", !.pushed = errs, !.fn = TRUE,
                                 !.entry = Top.entry,
                                 !.trail = IF BodyEmpty THEN NoItem ELSE BodyLast,
                                 !.depth = depth(scopes),
                                 !.n = IF Top.rule = "expr" THEN 1 ELSE Top.n,
                                 !.min_refs = min_refs, !.capDef = cap.def,
                                 !.capParam = cap.param,
                                 !.lt = IF BodyEmpty THEN STATIC ELSE lt])
    /\ capt' = SubSeq(capt, 1, Len(capt) - 1)
    /\ UNCHANGED <<nodes, done>>

\* ------------------------------------------------------------ expressions
\* The operands of the top frame, in the order the handlers evaluated them.
NOps == Len(Top.ops)
Opnd(i) == Top.ops[NOps - i]       \* Opnd(0) is the operand evaluated last

\* A binary handler's fold step: left and right were evaluated in this order.
BinExprStep(op, sym, tier, leftTier, rightTier, refs, unk) ==
    /\ Opnd(1).tier <= leftTier
    /\ Opnd(0).tier <= rightTier
    /\ stack' = Reduce(stack, 2, Node(Lifetime(depth(scopes), refs), tier, FALSE, unk))
    /\ Step(Label(op, sym, 0, ""),
            [NoLast EXCEPT !.op = op, !.maxin = Max(Opnd(1).refs, Opnd(0).refs),
                           !.ltier = Opnd(1).tier])
    /\ UNCHANGED <<scopes, errors, nodes, crashed, done, capt>>

expr_or ==
    /\ Running
    /\ NOps >= 2
    /\ BinExprStep("expr_or", "or", TOr, TOr, TAnd,
                   Max(Opnd(1).refs, Opnd(0).refs), Opnd(1).unk /\ Opnd(0).unk)

\* expr_and that resets refs as expr_cmp does.
expr_and_reset ==
    /\ Running
    /\ NOps >= 2
    /\ BinExprStep("expr_and", "and", TAnd, TAnd, TCmp, 0, FALSE)

expr_and ==
    /\ Running
    /\ NOps >= 2
    /\ BinExprStep("expr_and", "and", TAnd, TAnd, TCmp,
                   Max(Opnd(1).refs, Opnd(0).refs), Opnd(1).unk /\ Opnd(0).unk)

expr_cmp(sym) ==
    /\ Running
    /\ NOps >= 2
    /\ BinExprStep("expr_cmp", sym, TCmp, TCmp, TAs, 0, FALSE)

expr_as(sym) ==
    /\ Running
    /\ NOps >= 2
    /\ BinExprStep("expr_as", sym, TAs, TAs, TMdr, 0, FALSE)

expr_mdr(sym) ==
    /\ Running
    /\ NOps >= 2
    /\ BinExprStep("expr_mdr", sym, TMdr, TMdr, TNeg, 0, FALSE)

\* expr_dad: dad was evaluated first, the head after it.
expr_dad ==
    /\ Running
    /\ NOps >= 2
    /\ BinExprStep("expr_dad", "::", TDad, TDad, TMom, Opnd(1).depth,
                   IsRecovery(Opnd(1)))

\* expr_mom walks its operands from the last one: mom was evaluated first,
\* the head that stands before it in the text after it.
expr_mom ==
    /\ Running
    /\ NOps >= 2
    /\ BinExprStep("expr_mom", ":", TMom, TMom, THead, Opnd(1).depth,
                   IsRecovery(Opnd(1)))

\* A unary handler's step.
UnExprStep(op, sym, tier, innerTier) ==
    /\ Opnd(0).tier <= innerTier
    /\ stack' = Reduce(stack, 1, Node(Lifetime(depth(scopes), 0), tier, FALSE, FALSE))
    /\ Step(Label(op, sym, 0, ""), [NoLast EXCEPT !.op = op, !.maxin = Opnd(0).refs])
    /\ UNCHANGED <<scopes, errors, nodes, crashed, done, capt>>

expr_neg ==
    /\ Running
    /\ NOps >= 1
    /\ UnExprStep("expr_neg", "-", TNeg, TCall)

expr_head ==
    /\ Running
    /\ NOps >= 1
    /\ UnExprStep("expr_head", "!", THead, TTerm)

\* max of refs over the last k operands (k >= 1)
RECURSIVE MaxRefs(_)
MaxRefs(k) == IF k = 1 THEN Opnd(0).refs ELSE Max(Opnd(k - 1).refs, MaxRefs(k - 1))

\* The refs of a call node taken from the caller's depth, as expr_dad
\* takes them from its operand.
CallRefsCallerDepth(k, carried) == Opnd(k).depth

\* The refs of a call node: the max over its arguments, or with no argument
\* the refs carried so far (the caller's, or the previous call's).
CallRefs(k, carried) == IF k = 0 THEN carried ELSE MaxRefs(k)

\* expr_call: the first expr_call_single, with k >= 1 arguments after the
\* caller (with none the caller itself is the node).
expr_call(k) ==
    /\ Running
    /\ k >= 1
    /\ NOps >= k + 1
    /\ \A i \in 0..k : Opnd(i).tier <= TDad
    /\ LET lt == Lifetime(depth(scopes), CallRefs(k, Opnd(k).refs))
           unk == \A i \in 0..(k - 1) : Opnd(i).unk
       IN /\ stack' = Reduce(stack, k + 1, Node(lt, TCall, FALSE, unk))
          /\ Step(Label("expr_call", "", k, ""),
                  [NoLast EXCEPT !.op = "expr_call", !.n = k,
                                 !.maxin = Max(Opnd(k).refs, MaxRefs(k))])
    /\ UNCHANGED <<scopes, errors, nodes, crashed, done, capt>>

\* expr_call: a chained expr_call_single with k >= 0 arguments; the node so
\* far becomes its first argument.
chained_call(k) ==
    /\ Running
    /\ NOps >= k + 2
    /\ \A i \in 0..k : Opnd(i).tier <= TDad
    /\ Opnd(k + 1).tier <= TCall
    /\ LET lt == Lifetime(depth(scopes), CallRefs(k, Opnd(k + 1).refs))
           unk == IF k = 0 THEN Opnd(k + 1).unk ELSE \A i \in 0..(k - 1) : Opnd(i).unk
       IN /\ stack' = Reduce(stack, k + 2, Node(lt, TCall, FALSE, unk))
          /\ Step(Label("chained_call", "", k, ""),
                  [NoLast EXCEPT !.op = "chained_call", !.n = k,
                                 !.maxin = IF k = 0 THEN Opnd(1).refs
                                           ELSE Max(Opnd(k + 1).refs, MaxRefs(k))])
    /\ UNCHANGED <<scopes, errors, nodes, crashed, done, capt>>

\* Rule::list_literal with no items: the identifier term nil
EmptyList ==
    /\ CanLeaf
    /\ stack' = PushOp(stack, Node(STATIC, TTerm, FALSE, FALSE))
    /\ Step(Label("list_literal", "", 0, ""), [NoLast EXCEPT !.op = "list_literal"])
    /\ nodes' = nodes + 1
    /\ UNCHANGED <<scopes, errors, crashed, done, capt>>

\* The fold of a list literal: from the last item back, every link takes the
\* depth of the tail so far as its refs.
RECURSIVE FoldList(_, _, _)
FoldList(k, tail, d) ==
    IF k = 0 THEN tail ELSE FoldList(k - 1, Lifetime(d, tail.depth), d)

\* Rule::list_literal with k >= 1 items, each a term
list_literal(k) ==
    /\ Running
    /\ k >= 1
    /\ NOps >= k
    /\ \A i \in 0..(k - 1) : Opnd(i).tier = TTerm
    /\ LET lt == FoldList(k - 1, NodeLt(Opnd(0)), depth(scopes))
           node == IF k = 1 THEN Opnd(0)
                   ELSE Node(lt, TTerm, FALSE, k = 2 /\ IsRecovery(Opnd(0)))
       IN /\ stack' = Reduce(stack, k, node)
          /\ Step(Label("list_literal", "", k, ""),
                  [NoLast EXCEPT !.op = "list_literal", !.n = k,
                                 !.maxin = MaxRefs(k)])
    /\ UNCHANGED <<scopes, errors, nodes, crashed, done, capt>>

\* Rule::tree_literal: three terms
tree_literal ==
    /\ Running
    /\ NOps >= 3
    /\ \A i \in 0..2 : Opnd(i).tier = TTerm
    /\ LET lt == Lifetime(depth(scopes),
                          Max(Max(Opnd(2).depth, Opnd(1).depth), Opnd(0).depth))
       IN /\ stack' = Reduce(stack, 3,
                          Node(lt, TTerm, FALSE, \A i \in 0..2 : IsRecovery(Opnd(i))))
          /\ Step(Label("tree_literal", "", 0, ""),
                  [NoLast EXCEPT !.op = "tree_literal", !.n = 3,
                                 !.maxin = MaxRefs(3)])
    /\ UNCHANGED <<scopes, errors, nodes, crashed, done, capt>>

\* ------------------------------------------------------------------- Next

\* ================================================================ Resolver
\* Variant, in the order of its Ord; a BTreeSet<Variant> is the strictly
\* increasing sequence of its elements.
VariantOrder == <<"Nil", "Bool", "Nat", "Int", "Real", "Text">>
Ord(v) == CHOOSE i \in 1..Len(VariantOrder) : VariantOrder[i] = v

\* Vec::push in the place of BTreeSet::insert.
insert_push(set, v) == Append(set, v)

\* BTreeSet::insert
RECURSIVE insert(_, _)
insert(set, v) ==
    IF set = <<>> THEN <<v>>
    ELSE IF Ord(v) = Ord(Head(set)) THEN set
    ELSE IF Ord(v) < Ord(Head(set)) THEN <<v>> \o set
    ELSE <<Head(set)>> \o insert(Tail(set), v)

\* extend that takes the first element only.
extend_head(set, vs) == IF vs = <<>> THEN set ELSE insert(set, Head(vs))

\* BTreeSet::extend
RECURSIVE extend(_, _)
extend(set, vs) ==
    IF vs = <<>> THEN set ELSE extend(insert(set, Head(vs)), Tail(vs))

\* UnresolvedVariant
NilAlt == [ident |-> FALSE, name |-> ""]
IdentAlt(name) == [ident |-> TRUE, name |-> name]

\* ResolvedType
Unresolved == [kind |-> "Unresolved", variants |-> <<>>]
Error == [kind |-> "Error", variants |-> <<>>]
Resolved(variants) == [kind |-> "Resolved", variants |-> variants]

\* Type
Type(unresolved) == [unresolved |-> unresolved, resolved |-> Unresolved]

BuiltinTypes == {"nil", "bool", "nat", "int", "real", "text"}
UserTypes == {"T", "U"}
TypeNames == BuiltinTypes \cup UserTypes
\* The alternatives and the registered types of the inputs.
Alts == {NilAlt, IdentAlt("int"), IdentAlt("T"), IdentAlt("U")}
AltLists == UNION {[1..k -> Alts] : k \in 1..MaxAlts}
PushedTypes == {<<"Int">>, <<"Nil", "Int">>}

\* The names of definitions, parameters and identifier terms of the inputs.
RNames == {"f", "g", "x"}
RDefNames == {"f", "g"}
RParams == {<<>>, <<"x">>, <<"f">>}
RPatterns == {"f"}
RetTypes == {<<IdentAlt("int")>>}
ParamType == <<IdentAlt("int")>>

\* Scope::default(): no key is <<>> (types and defs map a name to a Vec that
\* is never empty once the key exists, param_defs maps it to one Type).
DefaultScope ==
    [types |-> [n \in TypeNames |-> <<>>],
     defs |-> [n \in RNames |-> <<>>],
     param_defs |-> [n \in RNames |-> <<>>]]

\* Resolver::push_type
push_type(rs, name, t) ==
    [rs EXCEPT ![Len(rs)].types[name] = Append(@, t)]

\* Resolver::new
ResolverNew ==
    LET s0 == <<DefaultScope>>
        s1 == push_type(s0, "nil", <<"Nil">>)
        s2 == push_type(s1, "bool", <<"Bool">>)
        s3 == push_type(s2, "nat", <<"Nat">>)
        s4 == push_type(s3, "int", <<"Int">>)
        s5 == push_type(s4, "real", <<"Real">>)
    IN push_type(s5, "text", <<"Text">>)

\* Resolver::find_type: the innermost scope that has the name, and the last
\* type pushed under it; None is <<>>, Some(t) is <<t>>.
RECURSIVE find_type(_, _)
find_type(rs, name) ==
    IF rs = <<>> THEN <<>>
    ELSE LET stack0 == rs[Len(rs)].types[name]
         IN IF stack0 # <<>> THEN <<stack0[Len(stack0)]>>
            ELSE find_type(SubSeq(rs, 1, Len(rs) - 1), name)

\* The loop of Type::resolve over the alternatives from position i on:
\* the variants, the diagnostics and whether one was unknown.
RECURSIVE ResolveLoop(_, _, _, _)
ResolveLoop(rs, unresolved, i, acc) ==
    IF i > Len(unresolved) THEN acc
    ELSE LET u == unresolved[i]
             found == find_type(rs, u.name)
         IN IF ~u.ident
            THEN ResolveLoop(rs, unresolved, i + 1,
                             [acc EXCEPT !.variants = insert(@, "Nil")])
            ELSE IF found # <<>>
            THEN ResolveLoop(rs, unresolved, i + 1,
                             [acc EXCEPT !.variants = extend(@, found[1])])
            ELSE ResolveLoop(rs, unresolved, i + 1,
                             [acc EXCEPT !.errs = Append(@, u.name),
                                         !.error = TRUE])

\* A resolve() that starts from a Type not yet marked.
resolve_unmarked(t, rs) ==
    LET r == ResolveLoop(rs, t.unresolved, 1,
                         [variants |-> <<>>, errs |-> <<>>, error |-> FALSE])
    IN [ty |-> [t EXCEPT !.resolved = IF r.error THEN Error
                                      ELSE Resolved(r.variants)],
        errs |-> r.errs]

\* impl Resolve for Type: the Type and the diagnostics after resolve().
resolve(t, rs) ==
    LET r == ResolveLoop(rs, t.unresolved, 1,
                         [variants |-> <<>>, errs |-> <<>>, error |-> FALSE])
        marked == IF r.error THEN Error ELSE t.resolved
    IN [ty |-> [t EXCEPT !.resolved = IF marked # Error
                                      THEN Resolved(r.variants) ELSE marked],
        errs |-> r.errs]

\* ------------------------------------------------- definitions and terms
\* A push_def() that registers nothing.
push_def_dropped(rs, name, def) == rs

\* Resolver::push_def
push_def(rs, name, def) ==
    [rs EXCEPT ![Len(rs)].defs[name] = Append(@, def)]

\* Resolver::push_param_def
push_param_def(rs, name, t) ==
    [rs EXCEPT ![Len(rs)].param_defs[name] = <<t>>]

\* Resolver::def_exists
def_exists(rs, name) ==
    \E i \in 1..Len(rs) : rs[i].defs[name] # <<>> \/ rs[i].param_defs[name] # <<>>

\* Resolver::push_scope, Resolver::pop_scope
push_scope(rs) == Append(rs, DefaultScope)
pop_scope(rs) == SubSeq(rs, 1, Len(rs) - 1)

\* impl Resolve for Param, on the scopes and diagnostics so far
ResolveParam(acc, name) ==
    LET r == resolve(Type(ParamType), acc.rs)
    IN [rs |-> push_param_def(acc.rs, name, r.ty), errs |-> acc.errs \o r.errs]

\* impl Resolve for Params, from position i on
RECURSIVE ResolveParams(_, _, _)
ResolveParams(acc, params, i) ==
    IF i > Len(params) THEN acc
    ELSE ResolveParams(ResolveParam(acc, params[i]), params, i + 1)

\* A Def as push_def() clones it: its name, its return type and parameters.
RDef(name, ret, params) == [name |-> name, ret |-> ret, params |-> params]
NoDef == RDef("", Type(<<>>), <<>>)

\* A frame of the walk. entry: history, what the enclosing scope held under
\* the definition's name when Def::resolve began; params, done: history,
\* the parameters resolved into the frame's scope and the definitions whose
\* resolve() returned into it.
RFrame(kind, def, entry) ==
    [kind |-> kind, def |-> def, entry |-> entry, params |-> {}, done |-> {}]
RTop == rstack[Len(rstack)]
NoDLast ==
    [op |-> "", name |-> "", pushed |-> FALSE, entry |-> <<>>, def |-> NoDef]

\* The definitions registered in a live scope or being resolved.
DefsHeld ==
    Cardinality({<<i, n, k>> \in (1..Len(rscopes)) \X RNames \X (1..MaxDefs) :
                    k <= Len(rscopes[i].defs[n])})
    + Cardinality({i \in 1..Len(rstack) : rstack[i].kind = "def"})

RInit(unresolved) ==
    /\ rscopes = ResolverNew
    /\ rerrors = <<>>
    /\ ty = Type(unresolved)
    /\ fresh = FALSE
    /\ rlast = [prior |-> Unresolved, errs |-> <<>>]
    /\ rstack = <<RFrame("file", NoDef, <<>>)>>
    /\ dlast = NoDLast

\* What every name resolves to is the same under both scope stacks.
SameTypes(rs1, rs2) == \A n \in TypeNames : find_type(rs1, n) = find_type(rs2, n)
Registered(rs) ==
    Cardinality({<<s, n, k>> \in (1..Len(rs)) \X UserTypes \X (1..MaxPushes) :
                    k <= Len(rs[s].types[n])})

\* ty.resolve(res)
ResolveType ==
    /\ LET r == resolve(ty, rscopes)
       IN /\ Len(rerrors) + Len(r.errs) <= MaxRErrors
          /\ ty' = r.ty
          /\ rerrors' = rerrors \o r.errs
          /\ rlast' = [prior |-> ty.resolved, errs |-> r.errs]
    /\ fresh' = TRUE
    /\ UNCHANGED <<rscopes, rstack, dlast, bvars>>

\* res.push_type(name, t)
PushType(name, t) ==
    /\ Registered(rscopes) < MaxPushes
    /\ rscopes' = push_type(rscopes, name, t)
    /\ fresh' = (fresh /\ SameTypes(rscopes, rscopes'))
    /\ UNCHANGED <<rerrors, ty, rlast, rstack, dlast, bvars>>

\* res.push_scope()
PushScope ==
    /\ Len(rscopes) < MaxScopes
    /\ rscopes' = Append(rscopes, DefaultScope)
    /\ UNCHANGED <<rerrors, ty, fresh, rlast, rstack, dlast, bvars>>

\* res.pop_scope(), of a scope push_scope() pushed
PopScope ==
    /\ Len(rscopes) > 1
    /\ rscopes' = SubSeq(rscopes, 1, Len(rscopes) - 1)
    /\ fresh' = (fresh /\ SameTypes(rscopes, rscopes'))
    /\ UNCHANGED <<rerrors, ty, rlast, rstack, dlast, bvars>>

\* impl Resolve for Def, up to self.items.resolve(res)
BeginDefResolve(name, ret, params) ==
    /\ Len(rstack) < MaxWalk
    /\ DefsHeld < MaxDefs
    /\ LET r == resolve(Type(ret), rscopes)
           acc == ResolveParams([rs |-> push_scope(rscopes), errs |-> r.errs],
                                params, 1)
       IN /\ Len(rerrors) + Len(acc.errs) <= MaxRErrors
          /\ rscopes' = acc.rs
          /\ rerrors' = rerrors \o acc.errs
          /\ rstack' = Append(rstack,
                 [RFrame("def", RDef(name, r.ty, params),
                         rscopes[Len(rscopes)].defs[name])
                    EXCEPT !.params = {params[i] : i \in 1..Len(params)}])
    /\ dlast' = [NoDLast EXCEPT !.op = "def", !.name = name]
    /\ UNCHANGED <<ty, fresh, rlast, bvars>>

\* impl Resolve for Def, from the return of self.items.resolve(res)
EndDefResolve ==
    /\ RTop.kind = "def"
    /\ rscopes' = push_def(pop_scope(rscopes), RTop.def.name, RTop.def)
    /\ rstack' = [SubSeq(rstack, 1, Len(rstack) - 1)
                    EXCEPT ![Len(rstack) - 1].done = @ \cup {RTop.def.name}]
    /\ dlast' = [NoDLast EXCEPT !.op = "end_def", !.name = RTop.def.name,
                                !.entry = RTop.entry, !.def = RTop.def]
    /\ UNCHANGED <<rerrors, ty, fresh, rlast, bvars>>

\* impl Resolve for Term, Term::Closure up to closure.body.resolve(res)
BeginClosureResolve(params) ==
    /\ Len(rstack) < MaxWalk
    /\ LET acc == ResolveParams([rs |-> push_scope(rscopes), errs |-> <<>>],
                                params, 1)
       IN /\ Len(rerrors) + Len(acc.errs) <= MaxRErrors
          /\ rscopes' = acc.rs
          /\ rerrors' = rerrors \o acc.errs
          /\ rstack' = Append(rstack,
                 [RFrame("closure", NoDef, <<>>)
                    EXCEPT !.params = {params[i] : i \in 1..Len(params)}])
    /\ dlast' = [NoDLast EXCEPT !.op = "closure"]
    /\ UNCHANGED <<ty, fresh, rlast, bvars>>

\* impl Resolve for Term, Term::Closure from the return of the body
EndClosureResolve ==
    /\ RTop.kind = "closure"
    /\ rscopes' = pop_scope(rscopes)
    /\ rstack' = SubSeq(rstack, 1, Len(rstack) - 1)
    /\ dlast' = [NoDLast EXCEPT !.op = "end_closure"]
    /\ UNCHANGED <<rerrors, ty, fresh, rlast, bvars>>

\* impl Resolve for ExprIs, the IsRight::Pattern arm: param.resolve(res)
ResolvePattern(name) ==
    /\ LET acc == ResolveParam([rs |-> rscopes, errs |-> <<>>], name)
       IN /\ Len(rerrors) + Len(acc.errs) <= MaxRErrors
          /\ rscopes' = acc.rs
          /\ rerrors' = rerrors \o acc.errs
    /\ rstack' = [rstack EXCEPT ![Len(rstack)].params = @ \cup {name}]
    /\ dlast' = [NoDLast EXCEPT !.op = "pattern", !.name = name]
    /\ UNCHANGED <<ty, fresh, rlast, bvars>>

\* impl Resolve for Term, Term::Ident
ResolveIdent(name) ==
    /\ LET exists == def_exists(rscopes, name)
       IN /\ exists \/ Len(rerrors) < MaxRErrors
          /\ rerrors' = IF exists THEN rerrors
                        ELSE Append(rerrors, Err("UnknownDef", name))
          /\ dlast' = [NoDLast EXCEPT !.op = "ident", !.name = name,
                                      !.pushed = ~exists]
    /\ UNCHANGED <<rscopes, rstack, ty, fresh, rlast, bvars>>

\* ==================================================================== Next
Rules == {"items", "expr"}

BNext ==
    \/ \E rule \in {"int", "real"}, ok \in BOOLEAN : NumLit(rule, ok)
    \/ \E part \in Parts : string_literal(part)
    \/ \E name \in RefNames : Ident(name)
    \/ EmptyList
    \/ \E k \in 1..MaxOps : list_literal(k)
    \/ tree_literal
    \/ BeginParen
    \/ EndParen
    \/ \E params \in ParamLists, rule \in Rules : BeginClosure(params, rule)
    \/ EndClosure
    \/ \E name \in DefNames, params \in ParamLists, rule \in Rules :
          BeginDef(name, params, rule)
    \/ EndDef
    \/ EndItem
    \/ EndFile
    \/ expr_or
    \/ expr_and
    \/ \E sym \in {"==", "<"} : expr_cmp(sym)
    \/ \E sym \in {"+", "-"} : expr_as(sym)
    \/ \E sym \in {"*", "/"} : expr_mdr(sym)
    \/ expr_neg
    \/ \E k \in 1..(MaxOps - 1) : expr_call(k)
    \/ \E k \in 0..(MaxOps - 2) : chained_call(k)
    \/ expr_dad
    \/ expr_mom
    \/ expr_head

Init == BInit(MaxNodes, PlainNames, MaxFrames) /\ RInit(<<>>)
Next == BNext
Spec == Init /\ [][Next]_vars

\* The pass over the source units of at most NameTerms terms, in which
\* definitions and parameters take any name: definitions, closures,
\* blocks, identifiers and literals.
InitNames == BInit(NameTerms, Names, MaxFrames) /\ RInit(<<>>)
NextNames ==
    \/ \E rule \in {"int", "real"}, ok \in BOOLEAN : NumLit(rule, ok)
    \/ \E name \in RefNames : Ident(name)
    \/ BeginParen
    \/ EndParen
    \/ \E params \in ParamLists, rule \in Rules : BeginClosure(params, rule)
    \/ EndClosure
    \/ \E name \in DefNames, params \in ParamLists, rule \in Rules :
          BeginDef(name, params, rule)
    \/ EndDef
    \/ EndItem
    \/ EndFile
SpecNames == InitNames /\ [][NextNames]_vars

\* The pass over the source units of at most BlockTerms terms that nest up
\* to BlockFrames constructs: blocks, definitions, closures, identifiers and
\* literals.
InitBlocks == BInit(BlockTerms, PlainNames, BlockFrames) /\ RInit(<<>>)
NextBlocks ==
    \/ \E rule \in {"int", "real"} : NumLit(rule, TRUE)
    \/ \E name \in RefNames : Ident(name)
    \/ BeginParen
    \/ EndParen
    \/ \E params \in ParamLists, rule \in Rules : BeginClosure(params, rule)
    \/ EndClosure
    \/ \E name \in DefNames, params \in ParamLists, rule \in Rules :
          BeginDef(name, params, rule)
    \/ EndDef
    \/ EndItem
    \/ EndFile
SpecBlocks == InitBlocks /\ [][NextBlocks]_vars

\* The pass over the source units that nest one-parameter closures, each
\* the body of the one before, up to DeepFrames - 1 of them.
InitDeep == BInit(DeepFrames, PlainNames, DeepFrames) /\ RInit(<<>>)
NextDeep == BeginClosure(<<"x">>, "expr")
SpecDeep == InitDeep /\ [][NextDeep]_vars

\* The pass over the source units of the shape of `double`.
InitDouble == BInit(DoubleTerms, Names, MaxFrames) /\ RInit(<<>>)
NextDouble ==
    \/ /\ \E name \in DefNames, params \in ParamLists, rule \in Rules :
             BeginDef(name, params, rule)
       /\ tmpl' >= 0
    \/ /\ \E name \in RefNames : Ident(name)
       /\ tmpl' >= 0
    \/ /\ \E sym \in {"==", "<"} : expr_cmp(sym)
       /\ tmpl' >= 0
    \/ /\ \E sym \in {"+", "-"} : expr_as(sym)
       /\ tmpl' >= 0
    \/ /\ \E sym \in {"*", "/"} : expr_mdr(sym)
       /\ tmpl' >= 0
    \/ /\ EndDef
       /\ tmpl' >= 0
    \/ /\ \E rule \in {"int", "real"} : NumLit(rule, TRUE)
       /\ tmpl' >= 0
    \/ /\ expr_call(1)
       /\ tmpl' >= 0
    \/ /\ EndItem
       /\ tmpl' >= 0
    \/ /\ EndFile
       /\ tmpl' >= 0
SpecDouble == InitDouble /\ [][NextDouble]_vars

\* The Resolver over one Type of a tree.
InitResolve == BInit(MaxNodes, PlainNames, MaxFrames) /\ \E unresolved \in AltLists : RInit(unresolved)
NextResolve ==
    \/ ResolveType
    \/ \E name \in UserTypes, t \in PushedTypes : PushType(name, t)
    \/ PushScope
    \/ PopScope
SpecResolve == InitResolve /\ [][NextResolve]_vars

\* The walk of the Resolver over definitions, closures, patterns and
\* identifier terms; Term::Expr and the expression tiers only recurse, and
\* the other terms do nothing.
InitDefs == BInit(MaxNodes, PlainNames, MaxFrames) /\ RInit(<<>>)
NextDefs ==
    \/ \E name \in RDefNames, ret \in RetTypes, params \in RParams :
          BeginDefResolve(name, ret, params)
    \/ EndDefResolve
    \/ \E params \in RParams : BeginClosureResolve(params)
    \/ EndClosureResolve
    \/ \E name \in RPatterns : ResolvePattern(name)
    \/ \E name \in RNames : ResolveIdent(name)
SpecDefs == InitDefs /\ [][NextDefs]_vars

\* ================================================================== claims
HasErr(seq, kind) == \E i \in 1..Len(seq) : seq[i].kind = kind
EndOps == {"end_def", "end_closure", "end_paren"}

\* C1: every Lifetime the Builder holds, on a binding of a scope, on an
\* operand node or on the last item of a handler in progress, has
\* refs <= depth, whatever diagnostics were recorded.
C1_RefsAtMostDepth ==
    /\ \A fi \in 1..Len(scopes) : \A p \in 1..Len(scopes[fi].scopes) :
          \A n \in Names :
             LET b == scopes[fi].scopes[p][n]
             IN b.kind # "None" => BindingLifetime(b).refs <= BindingLifetime(b).depth
    /\ \A i \in 1..Len(stack) :
          /\ \A j \in 1..Len(stack[i].ops) : stack[i].ops[j].refs <= stack[i].ops[j].depth
          /\ stack[i].lastItem.node => stack[i].lastItem.refs <= stack[i].lastItem.depth

\* C2: a function definition or closure whose body is exactly one of its
\* own parameters gets no ReturnReferencesLocal, at every nesting depth:
\* neither is one due when its body is complete, nor did the step that
\* ended it push one.
C2_OwnParameterAccepted ==
    /\ ( /\ BodyDone
         /\ Top.kind \in {"def", "closure"}
         /\ Top.check_ref
         /\ ~BodyEmpty
         /\ Top.rule = "items" => Top.n = 1
         /\ BodyLast.own )
       => ~HasErr(BodyErrors(scopes), "ReturnReferencesLocal")
    /\ ( /\ last.op \in {"end_def", "end_closure"}
         /\ last.fn
         /\ last.n = 1
         /\ last.trail.own )
       => ~HasErr(last.pushed, "ReturnReferencesLocal")
\* A function nested in a function has ended with its own parameter as body.
C2_Witness ==
    /\ last.op = "end_def"
    /\ last.fn
    /\ last.n = 1
    /\ last.trail.own
    /\ last.depth = 3
    /\ errors = <<>>
    /\ ~crashed

\* C3, as stated: when a closure inside function g referenced a
\* definition bound in g's own function scope, the min_refs g's scope
\* returns on exit is at least the depth of that definition.
C3_LocalRaisesMinRefs ==
    (last.op \in {"end_def", "end_closure"} /\ last.fn /\ last.capDef > 0)
       => last.min_refs >= last.capDef
\* C3, amended: when a closure inside function g referenced a parameter of
\* g, the min_refs g's scope returns on exit, and the refs of the lifetime
\* computed for g, are at least the depth of that parameter.
C3_ParamRaisesMinRefs ==
    (last.op \in {"end_def", "end_closure"} /\ last.fn /\ last.capParam > 0)
       => /\ last.min_refs >= last.capParam
          /\ ~crashed => last.lt.refs >= last.capParam
\* g ended with a trailing expression of refs 0 after a closure in its body
\* referenced its parameter.
C3_Witness ==
    /\ last.op = "end_def"
    /\ last.fn
    /\ last.capParam > 0
    /\ last.trail.node
    /\ last.trail.refs = 0
    /\ last.min_refs = last.capParam
    /\ last.lt.refs = last.capParam
    /\ errors = <<>>
    /\ ~crashed

\* C4: once a parenthesized block is exited, every name resolves to
\* exactly the binding it resolved to immediately before the block was
\* entered.
C4_PopRestoresLookup ==
    (last.op = "end_paren" /\ ~crashed)
       => \A n \in Names : Lookup(scopes, n) = last.saved[n]
\* A block that bound again, differently, a name bound outside it was exited.
C4_Witness ==
    /\ last.op = "end_paren"
    /\ ~crashed
    /\ errors = <<>>
    /\ \E n \in Names :
          /\ last.saved[n].kind # "None"
          /\ last.popped[n].kind # "None"
          /\ last.popped[n] # last.saved[n]
          /\ Lookup(scopes, n) = last.saved[n]

\* The variants a type expression reaches, and whether all its names are
\* registered.
Range(seq) == {seq[i] : i \in 1..Len(seq)}
Reach(rs, unresolved) ==
    UNION { IF ~unresolved[i].ident THEN {"Nil"}
            ELSE IF find_type(rs, unresolved[i].name) = <<>> THEN {}
            ELSE Range(find_type(rs, unresolved[i].name)[1]) :
            i \in 1..Len(unresolved) }
AllKnown(rs, unresolved) ==
    \A i \in 1..Len(unresolved) :
       unresolved[i].ident => find_type(rs, unresolved[i].name) # <<>>

\* C5: the ConcreteType a resolved type expression got is the one that
\* resolving any other type expression that reaches the same variants
\* gives, whether it lists them directly or through a named type, in
\* whatever order, and in whatever order the named types were registered.
C5_SameVariantsSameType ==
    (fresh /\ ty.resolved.kind = "Resolved")
       => \A other \in AltLists :
             ( /\ AllKnown(rscopes, other)
               /\ Reach(rscopes, other) = Reach(rscopes, ty.unresolved) )
             => resolve(Type(other), rscopes).ty.resolved = ty.resolved
\* A type expression that reaches Nil and Int through a registered named
\* type was resolved while another named type was registered too, and the
\* direct listing of the two variants resolves to the same ConcreteType.
C5_Witness ==
    /\ fresh
    /\ ty.resolved = Resolved(<<"Nil", "Int">>)
    /\ \A i \in 1..Len(ty.unresolved) : ty.unresolved[i].name \in UserTypes
    /\ \A n \in UserTypes : find_type(rscopes, n) # <<>>
    /\ resolve(Type(<<IdentAlt("int"), NilAlt>>), rscopes).ty.resolved = ty.resolved

\* C6: an identifier with no visible binding records exactly one
\* UnknownDef and takes the STATIC lifetime, and no body or block whose
\* trailing expression has its refs from that recovery lifetime gets a
\* ReturnReferencesLocal, neither due when it is complete nor pushed by the
\* step that ended it.
C6_UnknownDefIsolated ==
    /\ (last.op = "ident" /\ HasErr(last.pushed, "UnknownDef"))
       => /\ Len(last.pushed) = 1
          /\ Running
          /\ NodeLt(Top.ops[Len(Top.ops)]) = STATIC
    /\ (BodyDone /\ Top.kind \in {"def", "closure"} /\ ~BodyEmpty /\ BodyLast.unk)
       => ~HasErr(BodyErrors(scopes), "ReturnReferencesLocal")
    /\ ( /\ Running
         /\ Top.kind \in {"paren", "file"}
         /\ Top.ops = <<>>
         /\ Top.n > 0
         /\ Top.lastItem.unk )
       => ~HasErr(ItemsCheck(Top, scopes), "ReturnReferencesLocal")
    /\ (last.op \in EndOps \cup {"end_file"} /\ last.trail.unk)
       => ~HasErr(last.pushed, "ReturnReferencesLocal")
\* A function body ended with the unknown identifier as its trailing
\* expression, and the one diagnostic of the pass is its UnknownDef.
C6_Witness ==
    /\ last.op \in {"end_def", "end_closure"}
    /\ last.fn
    /\ last.trail.unk
    /\ ~crashed
    /\ Len(errors) = 1
    /\ errors[1].kind = "UnknownDef"

\* C7: the step that binds a definition name or parameter names pushes one
\* ForbiddenRedefinition for each of them that is nil, true or false, and
\* the pass goes on into the body.
C7_ForbiddenRedefinition ==
    last.op \in {"def", "closure"}
       => /\ Count(last.pushed, "ForbiddenRedefinition")
               = Cardinality({i \in 1..Len(last.names) :
                                 last.names[i] \in FORBIDDEN_REDIFINITIONS})
          /\ \A i \in 1..Len(last.names) :
                last.names[i] \in FORBIDDEN_REDIFINITIONS
                   => \E j \in 1..Len(last.pushed) :
                         last.pushed[j] = Err("ForbiddenRedefinition", last.names[i])
          /\ Running
\* The pass over a source unit that binds nil has completed.
C7_Witness ==
    /\ done
    /\ ~crashed
    /\ errors = <<Err("ForbiddenRedefinition", "nil")>>

\* C8: the pass over double(x) = x + x, then double 5: the definition is
\* stored with one parameter, the call node has refs 0, and no diagnostic
\* is recorded.
C8_Double ==
    /\ mon > 0 => errors = <<>> /\ ~crashed
    /\ mon >= 5 => /\ scopes[1].scopes[1]["f"].kind = "Def"
                   /\ scopes[1].scopes[1]["f"].nparams = 1
    /\ mon = 8 => /\ Top.ops = <<Top.ops[1]>>
                  /\ Top.ops[1].tier = TCall
                  /\ Top.ops[1].refs = 0
    /\ mon = 10 => /\ done
                   /\ last.trail.node
                   /\ last.trail.refs = 0
\* The pass over the source unit has completed.
C8_Witness == mon = 10 /\ done /\ errors = <<>>

\* C9: the pass never aborts.
C9_NeverAborts == ~crashed

\* C10: the step that ends a parenthesized block, or a function or closure
\* body, whose trailing expression has refs equal to the function depth at
\* that point pushes a ReturnReferencesLocal.
C10_ReturnReferencesLocal ==
    ( /\ last.op \in EndOps
      /\ last.op = "end_paren" \/ last.fn
      /\ last.trail.node
      /\ last.trail.refs = last.depth )
       => HasErr(last.pushed, "ReturnReferencesLocal")

\* C11: a parenthesized block nested inside another block whose final item
\* is a definition records LastItemNotExpression when it ends, at top level
\* too, and a block whose final item is an expression does not record it.
C11_NestedBlockLastItem ==
    (last.op = "end_paren" /\ last.n > 0 /\ last.blocks >= 3)
       => (HasErr(last.pushed, "LastItemNotExpression") <=> ~last.trail.node)
\* The alternatives of a type expression that name no registered type.
UnknownAlts(rs, unresolved) ==
    {i \in 1..Len(unresolved) :
        unresolved[i].ident /\ find_type(rs, unresolved[i].name) = <<>>}
StrictlyIncreasing(set) ==
    \A i \in 1..Len(set) : \A j \in 1..Len(set) : i < j => Ord(set[i]) < Ord(set[j])

OpenFunctions == {i \in 1..Len(stack) : stack[i].kind = "def" /\ stack[i].nparams > 0}
\* The entry of `name` in the innermost block scope of function scope fi.
Entry(fi, name) == scopes[fi].scopes[Len(scopes[fi].scopes)][name]

\* C13: while the body of a parameterized definition is processed, its name
\* is bound Unfinished in the enclosing scope and a reference to it records
\* no UnknownDef; when the definition is complete that entry is the
\* Definition binding with the computed lifetime, and no Unfinished binding
\* remains for a definition that is complete.
C13_UnfinishedThenDefinition ==
    /\ \A i \in OpenFunctions :
          /\ Entry(stack[i].lvl - 1, stack[i].name) = UnfinishedB(stack[i].lvl - 1)
          /\ Found(scopes, stack[i].name)
          /\ last.op = "ident" => Err("UnknownDef", stack[i].name) \notin Range(last.pushed)
    /\ (last.op = "end_def" /\ last.fn /\ ~crashed)
          => /\ Entry(Len(scopes), last.names[1]).kind = "Def"
             /\ BindingLifetime(Entry(Len(scopes), last.names[1])) = last.lt
             /\ last.lt = Lifetime(depth(scopes), Max(last.trail.refs, last.min_refs))
             /\ Lookup(scopes, last.names[1]) = Entry(Len(scopes), last.names[1])
    /\ \A fi \in 1..Len(scopes) : \A p \in 1..Len(scopes[fi].scopes) : \A n \in Names :
          scopes[fi].scopes[p][n].kind = "Unfinished"
             => \E i \in OpenFunctions : stack[i].name = n /\ stack[i].lvl = fi + 1
\* A function at top level whose body is a reference to the function itself
\* is complete, without a diagnostic, and its name is a Definition binding.
C13_Witness ==
    /\ last.op = "end_def"
    /\ last.fn
    /\ last.names = <<"f">>
    /\ last.depth = 2
    /\ last.trail.node
    /\ ~last.trail.own
    /\ NodeLt(last.trail) = Lifetime(1, 1)
    /\ errors = <<>>
    /\ ~crashed
    /\ Lookup(scopes, "f").kind = "Def"
\* The block scopes in the order the claim searches them: those of the
\* current function scope from the innermost out, then those of each
\* enclosing function scope, from the inner one out.
Reverse(seq) == [i \in 1..Len(seq) |-> seq[Len(seq) + 1 - i]]
RECURSIVE SearchOrder(_)
SearchOrder(sc) ==
    IF sc = <<>> THEN <<>>
    ELSE Reverse(sc[Len(sc)].scopes) \o SearchOrder(SubSeq(sc, 1, Len(sc) - 1))
RECURSIVE FirstMatch(_, _)
FirstMatch(chain, name) ==
    IF chain = <<>> THEN NoneB
    ELSE IF Head(chain)[name].kind # "None" THEN Head(chain)[name]
    ELSE FirstMatch(Tail(chain), name)

\* C14: the identifier term takes the lifetime of the binding of the first
\* block scope, in that order, that contains its name, and UnknownDef is
\* recorded exactly when no block scope of any function scope contains it.
C14_LookupOrder ==
    (last.op = "ident" /\ ~crashed)
       => LET name == last.names[1]
              b == FirstMatch(SearchOrder(scopes), name)
              node == Top.ops[Len(Top.ops)]
          IN /\ (b = NoneB) <=> Err("UnknownDef", name) \in Range(last.pushed)
             /\ (b = NoneB)
                   <=> \A fi \in 1..Len(scopes) : \A p \in 1..Len(scopes[fi].scopes) :
                          scopes[fi].scopes[p][name].kind = "None"
             /\ NodeLt(node) = IF b = NoneB THEN STATIC ELSE BindingLifetime(b)
\* Inside a function defined in a block, a reference to its name passed the
\* function's own scope and took the Unfinished binding of the block, not
\* the Definition of the same name outside the block.
C14_Witness ==
    /\ last.op = "ident"
    /\ last.names = <<"f">>
    /\ errors = <<>>
    /\ Len(scopes) = 2
    /\ Len(scopes[1].scopes) = 2
    /\ scopes[2].scopes[1]["f"].kind = "None"
    /\ scopes[1].scopes[2]["f"].kind = "Unfinished"
    /\ scopes[1].scopes[1]["f"].kind = "Def"
    /\ BindingLifetime(scopes[1].scopes[1]["f"]) # Lifetime(1, 1)
    /\ NodeLt(Top.ops[Len(Top.ops)]) = Lifetime(1, 1)
\* The identifier step found a binding, of depth d.
IdentFound == last.op = "ident" /\ ~crashed /\ ~HasErr(last.pushed, "UnknownDef")
IdentDepth == Top.ops[Len(Top.ops)].depth
Captured == IdentDepth > 0 /\ IdentDepth < depth(scopes)

\* C15, as stated: an identifier whose binding has depth d, 0 < d < D,
\* raises min_refs to max(min_refs, d) in exactly the function scopes
\* strictly between d and the current depth D, and leaves every other
\* function scope's min_refs as it was.
C15_StrictlyBetween ==
    (IdentFound /\ Captured)
       => \A i \in 1..Len(scopes) :
             scopes[i].min_refs
                = IF IdentDepth < i /\ i < depth(scopes)
                  THEN Max(last.mins[i], IdentDepth) ELSE last.mins[i]

\* C15, amended: it raises min_refs to max(min_refs, d) in exactly the
\* D - d innermost function scopes, those above d up to and including the
\* current one, and leaves every other function scope's min_refs as it
\* was; an identifier whose binding has depth 0 or D raises none.
C15_InnermostScopes ==
    IdentFound
       => \A i \in 1..Len(scopes) :
             scopes[i].min_refs
                = IF Captured /\ IdentDepth < i
                  THEN Max(last.mins[i], IdentDepth) ELSE last.mins[i]
\* In a closure inside a function, a reference to the function's parameter
\* raised the min_refs of the function's scope and of the closure's scope,
\* and not that of the top-level scope.
C15_Witness ==
    /\ IdentFound
    /\ depth(scopes) = 3
    /\ IdentDepth = 1
    /\ last.mins = <<0, 0, 0>>
    /\ scopes[1].min_refs = 0
    /\ scopes[2].min_refs = 1
    /\ scopes[3].min_refs = 1
    /\ errors = <<>>
\* The node and the binding of the identifier step.
IdentNode == Top.ops[Len(Top.ops)]
IdentBinding == Lookup(scopes, last.names[1])

\* C16, as stated: an identifier that resolves to a binding gets refs equal
\* to the depth of that binding, whatever its kind, and an identifier with
\* no visible binding records UnknownDef and gets the static lifetime.
C16_RefsIsBindingDepth ==
    (last.op = "ident" /\ ~crashed)
       => IF IdentBinding.kind = "None"
          THEN HasErr(last.pushed, "UnknownDef") /\ NodeLt(IdentNode) = STATIC
          ELSE IdentNode.refs = IdentBinding.depth

\* C16, amended: an identifier that resolves to a Parameter or Unfinished
\* binding gets refs equal to the depth of the binding; one that resolves
\* to a Definition gets the lifetime stored with the Definition, whose refs
\* is the one computed when the definition ended; a builtin gets the static
\* lifetime; an identifier with no visible binding records one UnknownDef
\* and gets the static lifetime.
C16_RefsIsBindingLifetime ==
    (last.op = "ident" /\ ~crashed)
       => CASE IdentBinding.kind \in {"Param", "Unfinished"} ->
                 /\ NodeLt(IdentNode) = Lifetime(IdentBinding.depth, IdentBinding.depth)
                 /\ ~HasErr(last.pushed, "UnknownDef")
            [] IdentBinding.kind = "Def" ->
                 /\ NodeLt(IdentNode) = Lifetime(IdentBinding.depth, IdentBinding.refs)
                 /\ ~HasErr(last.pushed, "UnknownDef")
            [] IdentBinding.kind = "Builtin" ->
                 /\ NodeLt(IdentNode) = STATIC
                 /\ ~HasErr(last.pushed, "UnknownDef")
            [] OTHER ->
                 /\ Count(last.pushed, "UnknownDef") = 1
                 /\ NodeLt(IdentNode) = STATIC
\* A reference to a definition whose stored refs is below its depth: the
\* identifier term has the stored refs.
C16_Witness ==
    /\ last.op = "ident"
    /\ IdentBinding.kind = "Def"
    /\ IdentBinding.refs < IdentBinding.depth
    /\ IdentNode.refs = IdentBinding.refs
    /\ errors = <<>>
\* C17: the node a call step builds has refs equal to the maximum refs over
\* its caller and its arguments, and for a chained call over the node so
\* far, which becomes its first argument, and its own arguments.
C17_CallRefsMax ==
    (last.op \in {"expr_call", "chained_call"} /\ ~crashed)
       => Top.ops[Len(Top.ops)].refs = last.maxin
ResetOps == {"expr_cmp", "expr_as", "expr_mdr", "expr_neg", "expr_head"}
MaxOfOps == {"expr_or", "expr_and"}
\* The node the last operator step built.
OpNode == Top.ops[Len(Top.ops)]

\* C18: the node a comparison, additive, multiplicative, negation or head
\* step builds has refs 0 whatever the refs of its operands, and the node
\* an or / and step builds has the maximum of the refs of its two operands,
\* the left one being the node folded so far.
C18_OperatorRefs ==
    /\ (last.op \in ResetOps /\ ~crashed)
          => NodeLt(OpNode) = Lifetime(depth(scopes), 0)
    /\ (last.op \in MaxOfOps /\ ~crashed)
          => NodeLt(OpNode) = Lifetime(depth(scopes), last.maxin)
\* The second or of a chain folded a node built by or with an operand of
\* refs 1 into a node of refs 1.
C18_Witness ==
    /\ last.op = "expr_or"
    /\ last.ltier = TOr
    /\ last.maxin = 1
    /\ OpNode.refs = 1
    /\ errors = <<>>
\* C19: the node a cons-pair step, a list literal or a tree literal builds
\* has refs equal to the maximum of the refs of its children (0 when they
\* are literals), and the empty list literal is a term with the static
\* lifetime that records no diagnostic.
C19_StructureRefsMax ==
    /\ (last.op \in {"expr_dad", "expr_mom", "tree_literal"} /\ ~crashed)
          => OpNode.refs = last.maxin
    /\ (last.op = "list_literal" /\ last.n > 0 /\ ~crashed)
          => OpNode.refs = last.maxin
    /\ (last.op = "list_literal" /\ last.n = 0 /\ ~crashed)
          => NodeLt(OpNode) = STATIC /\ last.pushed = <<>>
\* C20: depth() is the number of function scopes on the stack and at least
\* 1, however deep function definitions and closures nest, every parameter
\* is bound with the depth of the scope that encloses its function, and no
\* step that binds parameters aborts the pass.
C20_DepthIsScopeCount ==
    /\ depth(scopes) = Len(scopes)
    /\ depth(scopes) >= 1
    /\ \A fi \in 1..Len(scopes) : \A p \in 1..Len(scopes[fi].scopes) : \A n \in Names :
          scopes[fi].scopes[p][n].kind = "Param" => scopes[fi].scopes[p][n].depth = fi - 1
    /\ ~(crashed /\ last.op \in {"def", "closure"})

\* C21: scope pushes and pops are balanced: when a definition (the early
\* return of a non-function definition named _ included), a closure or a
\* parenthesized block has been fully processed, with or without
\* diagnostics, the number of function scopes and the number of block scopes
\* of the current function scope are what they were just before the
\* construct began; at the end of the pass exactly one function scope
\* holding exactly one block scope remains.
C21_ScopesBalanced ==
    /\ (last.op \in EndOps /\ ~crashed) => ScopeCounts(scopes) = last.entry
    /\ done => ScopeCounts(scopes) = <<1, 1>>

\* A non-function definition named _ inside a parenthesized block has taken
\* its early return with a diagnostic recorded, and the block scope of the
\* parenthesis is still open beside the outermost one.
C21_Witness ==
    /\ last.op = "end_def"
    /\ ~crashed
    /\ ~last.fn
    /\ last.names = <<"_">>
    /\ last.entry = <<1, 2>>
    /\ ScopeCounts(scopes) = <<1, 2>>
    /\ errors # <<>>

\* A closure inside a function definition has been fully processed: two
\* function scopes remain, as before the closure began.
C21_WitnessClosure ==
    /\ last.op = "end_closure"
    /\ ~crashed
    /\ last.entry = <<2, 1>>
    /\ ScopeCounts(scopes) = <<2, 1>>

\* C22: the Error state of a Type is absorbing: a resolve() call on a Type
\* that an earlier resolve() marked Error leaves it Error, also when by then
\* every name it references has been registered with push_type.
C22_ErrorAbsorbing == rlast.prior = Error => ty.resolved = Error

\* A Type that names a user type was Error before the last resolve() call;
\* that call found every name registered and pushed no diagnostic, and the
\* Type is still Error.
C22_Witness ==
    /\ fresh
    /\ rlast.prior = Error
    /\ rlast.errs = <<>>
    /\ AllKnown(rscopes, ty.unresolved)
    /\ \E i \in 1..Len(ty.unresolved) :
          ty.unresolved[i].ident /\ ty.unresolved[i].name \in UserTypes
    /\ ty.resolved = Error

\* A parameter or pattern of that name was resolved into a live scope, or a
\* definition of that name finished resolving into one.
Logged(name) ==
    \E i \in 1..Len(rstack) : name \in rstack[i].params \cup rstack[i].done
\* The definitions whose body is being resolved.
OwnBody(name) ==
    \E i \in 1..Len(rstack) : rstack[i].kind = "def" /\ rstack[i].def.name = name

\* C23: push_def registers a definition's name only after its parameters
\* and body have been resolved and its scope popped: while the body is
\* resolved the enclosing scope holds under the name what it held before,
\* and the return adds the definition to the enclosing scope; an identifier
\* term inside the definition's own body that names it records UnknownDef
\* unless a parameter or an earlier definition of that name is visible;
\* an identifier term that names a definition resolved earlier into a live
\* scope records nothing.
C23_RegisteredAfterBody ==
    /\ \A i \in 2..Len(rstack) :
          rstack[i].kind = "def" =>
             rscopes[i - 1].defs[rstack[i].def.name] = rstack[i].entry
    /\ dlast.op = "end_def" =>
          /\ Len(rscopes) = Len(rstack)
          /\ rscopes[Len(rscopes)].defs[dlast.name] = Append(dlast.entry, dlast.def)
          /\ def_exists(rscopes, dlast.name)
    /\ (dlast.op = "ident" /\ OwnBody(dlast.name)) =>
          (dlast.pushed <=> ~Logged(dlast.name))
    /\ (dlast.op = "ident"
          /\ \E i \in 1..Len(rstack) : dlast.name \in rstack[i].done) =>
          ~dlast.pushed

\* The body of f, which has no parameter of that name and no earlier
\* definition, named f: UnknownDef(f) was recorded.
C23_Witness ==
    /\ dlast.op = "ident"
    /\ dlast.name = "f"
    /\ RTop.kind = "def"
    /\ RTop.def.name = "f"
    /\ ~Logged("f")
    /\ dlast.pushed
    /\ rerrors = <<Err("UnknownDef", "f")>>

\* After f was resolved, whose body named f and recorded UnknownDef(f), a
\* closure among the later items of the enclosing scope names f and
\* records nothing.
C23_WitnessLater ==
    /\ dlast.op = "ident"
    /\ dlast.name = "f"
    /\ Len(rstack) = 2
    /\ RTop.kind = "closure"
    /\ "f" \in rstack[1].done
    /\ "f" \notin RTop.params
    /\ ~dlast.pushed
    /\ rerrors = <<Err("UnknownDef", "f")>>

====
